---- MODULE Spec2Model ----
(***************************************************************************)
(* Short-time analysis (stana), frame count (numframes), frame centers     *)
(* (stcenters) and overlap-add synthesis (ola) of audlib/sig/stproc.py.    *)
(*                                                                         *)
(* Arrays are sequences (index 1 here is index 0 in the source).  Python   *)
(* floats are modelled bit by bit: a float is a record                     *)
(*   [neg |-> sign, b |-> binary digits (most significant first), f |-> n] *)
(* standing for the number  +/- (b read as a binary integer) / 2^f, and    *)
(* every float operation rounds its exact result to Precision significant  *)
(* digits, ties to even, as IEEE binary64 does.                            *)
(***************************************************************************)
EXTENDS Integers, Sequences, FiniteSets, TLC

VARIABLES pc, sig, wind, hop, synth, sr, itemsize, nf, centers, ana,
          sframes, sframes2, syn, syn2

vars == <<pc, sig, wind, hop, synth, sr, itemsize, nf, centers, ana,
          sframes, sframes2, syn, syn2>>

(***************************************************************************)
(* Bounds of the model.                                                    *)
(***************************************************************************)
MaxSigLen == 6      \* longest ramp signal 1,2,...,n
MaxShortSig == 2    \* longest signal drawn from all sequences over SigVals
MaxWinLen == 5      \* longest all-ones window
MaxOlaWin == 3      \* longest window of a direct call of ola
MaxShortWin == 2    \* longest window drawn from all sequences over WindVals
MaxHop == 4         \* largest hop size
MaxRate == 2        \* largest sampling rate
MaxFrames == 2      \* most frames handed directly to ola
MaxExtra == 1       \* most elements a frame handed to ola has beyond the window

SigVals == {0, 1, 2}
WindVals == {0, 1, 2}

Min(a, b) == IF a < b THEN a ELSE b
Max(a, b) == IF a > b THEN a ELSE b
Abs(a) == IF a < 0 THEN -a ELSE a

(***************************************************************************)
(* Python float arithmetic.                                                *)
(***************************************************************************)
Precision == 53

\* Binary digits are handled in chunks of ChunkBits digits.
ChunkBits == 16
ChunkBase == 2^ChunkBits

Zeros(n) == [i \in 1..n |-> 0]

StripLead(b) ==
    LET ones == {i \in 1..Len(b) : b[i] = 1}
    IN  IF ones = {} THEN <<>>
        ELSE SubSeq(b, CHOOSE i \in ones : \A j \in ones : i <= j, Len(b))

\* The canonical form of b / 2^f: no leading zero, no trailing zero after the point.
Canon(b, f) ==
    LET ones == {i \in 1..Len(b) : b[i] = 1}
        last == CHOOSE i \in ones : \A j \in ones : i >= j
        drop == Min(Len(b) - last, f)
    IN  IF ones = {} THEN [b |-> <<>>, f |-> 0]
        ELSE [b |-> StripLead(SubSeq(b, 1, Len(b) - drop)), f |-> f - drop]

\* b + 1 and b - 1 on binary digits (b - 1 for b > 0).
Incr(b) ==
    LET zs == {i \in 1..Len(b) : b[i] = 0}
        m == CHOOSE i \in zs : \A j \in zs : i >= j
    IN  IF zs = {} THEN <<1>> \o Zeros(Len(b))
        ELSE [i \in 1..Len(b) |-> IF i < m THEN b[i] ELSE IF i = m THEN 1 ELSE 0]

Decr(b) ==
    LET ones == {i \in 1..Len(b) : b[i] = 1}
        m == CHOOSE i \in ones : \A j \in ones : i >= j
    IN  IF ones = {} THEN b
        ELSE [i \in 1..Len(b) |-> IF i < m THEN b[i] ELSE IF i = m THEN 0 ELSE 1]

RECURSIVE IntBits(_)
IntBits(n) ==
    IF n = 0 THEN <<>> ELSE Append(IntBits(n \div 2), n % 2)

RECURSIVE BitsToInt(_)
BitsToInt(b) ==
    IF b = <<>> THEN 0 ELSE 2 * BitsToInt(SubSeq(b, 1, Len(b) - 1)) + b[Len(b)]

\* The ChunkBits digits of a number below ChunkBase.
Chunk(v) == [i \in 1..ChunkBits |-> (v \div 2^(ChunkBits - i)) % 2]

\* The exact number b / 2^f rounded to Precision significant digits, ties to even.
RoundNearestEven(b0, f) ==
    LET b == StripLead(b0)
        n == Len(b)
    IN  IF n <= Precision THEN Canon(b, f)
        ELSE LET keep == SubSeq(b, 1, Precision)
                 guard == b[Precision + 1]
                 sticky == \E i \in (Precision + 2)..n : b[i] = 1
                 up == guard = 1 /\ (sticky \/ keep[Precision] = 1)
                 kept == IF up THEN Incr(keep) ELSE keep
                 drop == n - Precision
             IN  IF f >= drop THEN Canon(kept, f - drop)
                 ELSE Canon(kept \o Zeros(drop - f), 0)

\* Long division: n chunks of digits of rem/den after the binary point; a last
\* digit 1 then stands for a nonzero remainder.
RECURSIVE FracBits(_, _, _)
FracBits(rem, den, n) ==
    IF n = 0 THEN (IF rem = 0 THEN <<>> ELSE <<1>>)
    ELSE Chunk((rem * ChunkBase) \div den)
         \o FracBits((rem * ChunkBase) % den, den, n - 1)

\* Chunks that hold Precision + 2 significant digits of a quotient by den.
FracChunks(den) == (Precision + 2 + Len(IntBits(den))) \div ChunkBits + 1

\* a / b for naturals a and b > 0, correctly rounded.
Quotient(a, b) ==
    LET fb == FracBits(a % b, b, FracChunks(b))
    IN  RoundNearestEven(IntBits(a \div b) \o fb, Len(fb))

Signed(neg, m) == [neg |-> neg /\ m.b # <<>>, b |-> m.b, f |-> m.f]

\* Python's a / b on two ints (true division).
TrueDiv(a, b) == Signed(a < 0, Quotient(Abs(a), b))

IntPart(x) ==
    IF Len(x.b) > x.f THEN SubSeq(x.b, 1, Len(x.b) - x.f) ELSE <<>>

FracPart(x) ==
    IF Len(x.b) >= x.f THEN SubSeq(x.b, Len(x.b) - x.f + 1, Len(x.b))
    ELSE Zeros(x.f - Len(x.b)) \o x.b

\* 1 - x for a float x >= 0.
OneMinus(x) ==
    IF IntPart(x) = <<>>
    THEN Signed(FALSE, RoundNearestEven(
                  Incr([i \in 1..x.f |-> 1 - FracPart(x)[i]]), x.f))
    ELSE Signed(TRUE, RoundNearestEven(Decr(IntPart(x)) \o FracPart(x), x.f))

\* Digits of n times the number whose digits are chunks 1..k of pb.
RECURSIVE MulChunks(_, _, _, _)
MulChunks(pb, k, n, carry) ==
    IF k = 0 THEN IntBits(carry)
    ELSE LET t == BitsToInt(SubSeq(pb, (k - 1) * ChunkBits + 1, k * ChunkBits)) * n
                  + carry
         IN  MulChunks(pb, k - 1, n, t \div ChunkBase) \o Chunk(t % ChunkBase)

MulBits(b, n) ==
    LET nch == (Len(b) + ChunkBits - 1) \div ChunkBits
    IN  MulChunks(Zeros(nch * ChunkBits - Len(b)) \o b, nch, n, 0)

\* float(n) * x for an int n.
MulInt(n, x) ==
    Signed((n < 0) # x.neg, RoundNearestEven(MulBits(x.b, Abs(n)), x.f))

\* Python's int(x): truncation toward zero.
Trunc(x) == IF x.neg THEN -BitsToInt(IntPart(x)) ELSE BitsToInt(IntPart(x))

\* math.ceil(x).
Ceil(x) ==
    IF x.neg THEN -BitsToInt(IntPart(x))
    ELSE BitsToInt(IntPart(x)) + (IF x.f > 0 THEN 1 ELSE 0)

(***************************************************************************)
(* window.hop2hsize: an integer hop is the hop size.                       *)
(***************************************************************************)
hop2hsize(w, h) == h

(***************************************************************************)
(* numframes                                                               *)
(***************************************************************************)
numframes(s, r, w, h, syn_) ==
    LET ssize == Len(s)
        fsize == Len(w)
        hsize == hop2hsize(w, h)
        sstart == IF syn_ THEN hsize - fsize ELSE 0
        send == ssize
    IN  Ceil(TrueDiv(send - sstart, hsize))

(***************************************************************************)
(* numpy pieces.                                                           *)
(***************************************************************************)
\* A slice bound a on an array of length n.
SliceIdx(a, n) == IF a < 0 THEN Max(a + n, 0) ELSE Min(a, n)

\* x[a:b]
Slice(x, a, b) == SubSeq(x, SliceIdx(a, Len(x)) + 1, SliceIdx(b, Len(x)))

\* Whether an array of length n can be assigned or added into a slice of length d.
Broadcasts(n, d) == n = d \/ n = 1

\* A variant of arange that takes the stop value in.
RECURSIVE arangeInclusive(_, _, _)
arangeInclusive(start, stop, step) ==
    IF start > stop THEN <<>>
    ELSE <<start>> \o arangeInclusive(start + step, stop, step)

\* np.arange(start, stop, step) and range(start, stop, step), step > 0.
RECURSIVE arange(_, _, _)
arange(start, stop, step) ==
    IF start >= stop THEN <<>>
    ELSE <<start>> \o arange(start + step, stop, step)

\* An int plus a float q, and a float divided by an int r > 0 (small values).
AddInt(x, q) ==
    LET t == x * 2^q.f + (IF q.neg THEN -1 ELSE 1) * BitsToInt(q.b)
    IN  Signed(t < 0, RoundNearestEven(IntBits(Abs(t)), q.f))

DivInt(x, r) == Signed(x.neg, Quotient(BitsToInt(x.b), r * 2^x.f))

(***************************************************************************)
(* stcenters                                                               *)
(***************************************************************************)
stcenters(s, r, w, h, syn_) ==
    LET ssize == Len(s)
        fsize == Len(w)
        hsize == hop2hsize(w, h)
        sstart == IF syn_ THEN hsize - fsize ELSE 0
        send == ssize
        grid == arange(sstart, send, hsize)
    IN  [i \in 1..Len(grid) |-> DivInt(AddInt(grid[i], TrueDiv(fsize - 1, 2)), r)]

(***************************************************************************)
(* stana.  sig holds small non-negative integers, stored with isz bytes    *)
(* per element; np.zeros makes an array of 8-byte floats.                  *)
(***************************************************************************)
Float64Bytes == 8
ItemSizes == {4, Float64Bytes}

\* What memory outside the buffer is taken to hold.
Outside == -1000

\* One 8-byte float read at byte offset off of a buffer of 8-byte floats that hold
\* small integers.  A read across two elements takes the high half of the first as
\* its low half and the (zero) low half of the second as its high half: a
\* subnormal number, zero only if the first element is zero; -a stands for the
\* subnormal made from element a.
ReadFloat64(buf, off) ==
    LET e == off \div Float64Bytes
    IN  IF e + 1 > Len(buf) THEN Outside
        ELSE IF off % Float64Bytes = 0 THEN buf[e + 1]
        ELSE IF e + 2 > Len(buf) THEN Outside
        ELSE -buf[e + 1]

\* One element of width bw read at byte offset off of a buffer of such elements.
ReadElem(buf, bw, off) ==
    IF bw = Float64Bytes THEN ReadFloat64(buf, off)
    ELSE IF off % bw = 0 /\ off \div bw < Len(buf) THEN buf[off \div bw + 1]
    ELSE Outside

\* as_strided(buf, shape=(rows, cols), strides=(s0, s1)) on elements of width bw.
as_strided(buf, bw, rows, cols, s0, s1) ==
    [i \in 1..rows |-> [j \in 1..cols |-> ReadElem(buf, bw, (i - 1) * s0 + (j - 1) * s1)]]

\* frames * wind
TimesWind(fr, w) == [i \in 1..Len(fr) |-> [j \in 1..Len(w) |-> fr[i][j] * w[j]]]

\* The slice of np.zeros(n) that sigpad[zpleft:len(sigpad)-zpright] names.
PadLo(zpleft, n) == SliceIdx(zpleft, n)
PadHi(zpright, n) == SliceIdx(n - zpright, n)

\* sigpad = np.zeros(n); sigpad[zpleft:len(sigpad)-zpright] = sig
PadSig(s, zpleft, zpright) ==
    LET n == Len(s) + zpleft + zpright
        lo == PadLo(zpleft, n)
        hi == PadHi(zpright, n)
    IN  IF n < 0 \/ ~Broadcasts(Len(s), Max(hi - lo, 0))
        THEN [raised |-> TRUE, sigpad |-> <<>>]
        ELSE [raised |-> FALSE,
              sigpad |-> [i \in 1..n |->
                            IF lo < i /\ i <= hi
                            THEN (IF Len(s) = 1 THEN s[1] ELSE s[i - lo])
                            ELSE 0]]

\* A variant of the start offset with the flag read the wrong way round.
StanaStartFlipped(w, h, syn_) == IF syn_ THEN 0 ELSE hop2hsize(w, h) - Len(w)

\* sstart = hsize-fsize if synth else 0
StanaStart(w, h, syn_) == IF syn_ THEN hop2hsize(w, h) - Len(w) ELSE 0

\* zpleft = -sstart
StanaLeftPad(sstart) == -sstart

stana(s, isz, w, h, syn_) ==
    LET ssize == Len(s)
        fsize == Len(w)
        hsize == hop2hsize(w, h)
        sstart == StanaStart(w, h, syn_)
        send == ssize
        nframe == Ceil(TrueDiv(send - sstart, hsize))
        zpleft == StanaLeftPad(sstart)
        zpright == (nframe - 1) * hsize + fsize - zpleft - ssize
        padded == zpleft > 0 \/ zpright > 0
        pad == IF padded THEN PadSig(s, zpleft, zpright)
               ELSE [raised |-> FALSE, sigpad |-> s]
        bw == IF padded THEN Float64Bytes ELSE isz
        std == isz
    IN  [called |-> TRUE, raised |-> pad.raised, nframe |-> nframe,
         sstart |-> sstart, zpleft |-> zpleft, zpright |-> zpright,
         padded |-> padded, sigpad |-> pad.sigpad, width |-> bw,
         frames |-> IF pad.raised THEN <<>>
                    ELSE TimesWind(as_strided(pad.sigpad, bw, nframe, fsize,
                                              std * hsize, std), w)]

NoAna ==
    [called |-> FALSE, raised |-> FALSE, nframe |-> 0, sstart |-> 0, zpleft |-> 0,
     zpright |-> 0, padded |-> FALSE, sigpad |-> <<>>, width |-> 0, frames |-> <<>>]

(***************************************************************************)
(* The per-frame formulation kept in stana for reference.                  *)
(***************************************************************************)
\* np.pad(x, (left, right), 'constant')
pad(x, left, right) == Zeros(left) \o x \o Zeros(right)

\* frames[ii] = row, on a row of fsize elements.
RowFits(row, fsize) == Broadcasts(Len(row), fsize)

SetRow(row, fsize) == IF Len(row) = fsize THEN row ELSE [j \in 1..fsize |-> row[1]]

RefRow(s, fsize, si) ==
    LET ssize == Len(s)
        sj == si + fsize
    IN  IF si < 0 THEN pad(Slice(s, 0, sj), fsize - sj, 0)
        ELSE IF sj > ssize THEN pad(Slice(s, si, ssize), 0, fsize - ssize + si)
        ELSE Slice(s, si, sj)

stanaRef(s, w, h, syn_) ==
    LET ssize == Len(s)
        fsize == Len(w)
        hsize == hop2hsize(w, h)
        sstart == IF syn_ THEN hsize - fsize ELSE 0
        send == ssize
        rows == Ceil(TrueDiv(send - sstart, hsize))
        grid == arange(sstart, send, hsize)
        bad == \E i \in 1..Len(grid) :
                   i > rows \/ ~RowFits(RefRow(s, fsize, grid[i]), fsize)
    IN  [raised |-> bad,
         frames |-> IF bad THEN <<>>
                    ELSE TimesWind([i \in 1..rows |->
                                      SetRow(RefRow(s, fsize, grid[i]), fsize)], w)]

(***************************************************************************)
(* ola                                                                     *)
(***************************************************************************)
\* sstart = int(-fsize * (1-hfrac)) with hfrac = hsize*1. / fsize
OlaStart(fsize, hsize) == Trunc(MulInt(-fsize, OneMinus(TrueDiv(hsize, fsize))))

\* Lines 189-198: the locals before the loop; np.zeros(send) raises on send < 0.
OlaEntry(fr, w, h) ==
    LET nframe == Len(fr)
        fsize == Len(w)
        hsize == hop2hsize(w, h)
        ssize == hsize * (nframe - 1) + fsize
        sstart == OlaStart(fsize, hsize)
        send == ssize + sstart
    IN  [status |-> IF send < 0 THEN "raised" ELSE "loop",
         nframe |-> nframe, fsize |-> fsize, hsize |-> hsize, ssize |-> ssize,
         sstart |-> sstart, send |-> send, ii |-> sstart,
         sout |-> IF send < 0 THEN <<>> ELSE Zeros(send),
         k |-> 0, branch |-> "none", dlo |-> 0, dhi |-> 0, slen |-> 0]

\* A variant that keeps the whole frame.
TruncateNothing(frame, fsize) == frame

\* frame = frame[:fsize]
Truncate(frame, fsize) == Slice(frame, 0, fsize)

OlaBranch(ii, fsize, send) ==
    IF ii < 0 THEN "left" ELSE IF ii + fsize > send THEN "right" ELSE "full"

\* A variant whose left-edge part is the head of the frame, not its tail.
OlaSourceHead(branch, frame, ii, send) ==
    IF branch = "left" THEN Slice(frame, 0, Len(frame) + ii)
    ELSE IF branch = "right" THEN Slice(frame, 0, send - ii)
    ELSE frame

\* The part of the frame that is added.
OlaSource(branch, frame, ii, send) ==
    IF branch = "left" THEN Slice(frame, -ii, Len(frame))
    ELSE IF branch = "right" THEN Slice(frame, 0, send - ii)
    ELSE frame

\* The bounds of the slice of sout that is added into.
OlaDestLo(branch, ii, n) == IF branch = "left" THEN 0 ELSE SliceIdx(ii, n)

OlaDestHi(branch, ii, fsize, n) ==
    IF branch = "right" THEN n ELSE SliceIdx(ii + fsize, n)

\* Lines 200-207: one pass of the loop over a frame.
OlaIter(s, frame0) ==
    LET frame == Truncate(frame0, s.fsize)
        n == Len(s.sout)
        branch == OlaBranch(s.ii, s.fsize, s.send)
        src == OlaSource(branch, frame, s.ii, s.send)
        lo == OlaDestLo(branch, s.ii, n)
        hi == OlaDestHi(branch, s.ii, s.fsize, n)
        ok == Broadcasts(Len(src), Max(hi - lo, 0))
    IN  IF ~ok
        THEN [s EXCEPT !.status = "raised", !.branch = branch, !.dlo = lo,
                       !.dhi = hi, !.slen = Len(src)]
        ELSE [s EXCEPT !.sout = [i \in 1..n |->
                                   IF lo < i /\ i <= hi
                                   THEN s.sout[i] + (IF Len(src) = 1 THEN src[1]
                                                     ELSE src[i - lo])
                                   ELSE s.sout[i]],
                       !.ii = s.ii + s.hsize, !.k = s.k + 1, !.branch = branch,
                       !.dlo = lo, !.dhi = hi, !.slen = Len(src)]

NoSyn ==
    [status |-> "none", nframe |-> 0, fsize |-> 0, hsize |-> 0, ssize |-> 0,
     sstart |-> 0, send |-> 0, ii |-> 0, sout |-> <<>>, k |-> 0,
     branch |-> "none", dlo |-> 0, dhi |-> 0, slen |-> 0]

Looping(s) == s.status = "loop" /\ s.k < s.nframe

(***************************************************************************)
(* Inputs.                                                                 *)
(***************************************************************************)
Ramp(n) == [i \in 1..n |-> i]
Ones(n) == [i \in 1..n |-> 1]

Signals ==
    {Ramp(n) : n \in 0..MaxSigLen}
      \cup UNION {[1..n -> SigVals] : n \in 0..MaxShortSig}

Windows ==
    {Ones(n) : n \in 1..MaxWinLen}
      \cup UNION {[1..n -> WindVals] : n \in 1..MaxShortWin}

\* Frame k of a sequence handed to ola, n elements long: every element differs.
Frame(k, n) == [j \in 1..n |-> 10 * k + j]

TailVals == {7, 8}
Tails == UNION {[1..n -> TailVals] : n \in 0..MaxExtra}

FrameSeqs(fsize) ==
    UNION {{[k \in 1..m |-> Frame(k, len[k])] :
              len \in [1..m -> 0..(fsize + MaxExtra)]} : m \in 0..MaxFrames}

\* fr with what follows each frame's first fsize elements replaced by x.
WithTail(fr, fsize, x) ==
    [k \in 1..Len(fr) |->
       IF Len(fr[k]) < fsize THEN fr[k] ELSE SubSeq(fr[k], 1, fsize) \o x]

\* Frame sequences equal to fr up to each frame's first fsize elements.
Twins(fr, fsize) == {fr} \cup {WithTail(fr, fsize, x) : x \in Tails}

(***************************************************************************)
(* The calls.                                                              *)
(***************************************************************************)
InitArgs ==
    /\ sig \in Signals
    /\ wind \in Windows
    /\ hop \in 1..MaxHop
    /\ synth \in BOOLEAN
    /\ sr = 0
    /\ itemsize = 0
    /\ nf = 0
    /\ centers = <<>>
    /\ ana = NoAna
    /\ syn = NoSyn
    /\ syn2 = NoSyn

Init ==
    /\ InitArgs
    /\ pc = "start"
    /\ sframes = <<>>
    /\ sframes2 = <<>>

Numframes ==
    /\ pc = "start"
    /\ nf' = numframes(sig, sr, wind, hop, synth)
    /\ pc' = "counted"
    /\ UNCHANGED <<sig, wind, hop, synth, sr, itemsize, centers, ana, sframes,
                   sframes2, syn, syn2>>

Stcenters(r) ==
    /\ pc = "start"
    /\ sr' = r
    /\ centers' = stcenters(sig, r, wind, hop, synth)
    /\ pc' = "centered"
    /\ UNCHANGED <<sig, wind, hop, synth, itemsize, nf, ana, sframes, sframes2,
                   syn, syn2>>

Stana(isz) ==
    /\ pc = "start"
    /\ itemsize' = isz
    /\ ana' = stana(sig, isz, wind, hop, synth)
    /\ pc' = IF ana'.raised THEN "raised" ELSE "analysed"
    /\ UNCHANGED <<sig, wind, hop, synth, sr, nf, centers, sframes, sframes2,
                   syn, syn2>>

OlaCall(fr, fr2) ==
    /\ sframes' = fr
    /\ sframes2' = fr2
    /\ syn' = OlaEntry(fr, wind, hop)
    /\ syn2' = OlaEntry(fr2, wind, hop)
    /\ pc' = "ola"
    /\ UNCHANGED <<sig, wind, hop, synth, sr, itemsize, nf, centers, ana>>

\* ola on the frames stana returned.
OlaOfStana ==
    /\ pc = "analysed"
    /\ OlaCall(ana.frames, ana.frames)

\* ola on frames that come from elsewhere, and on a twin of them.
OlaOfFrames ==
    /\ pc = "frames"
    /\ OlaCall(sframes, sframes2)

OlaLoop ==
    /\ pc = "ola"
    /\ Looping(syn) \/ Looping(syn2)
    /\ syn' = IF Looping(syn) THEN OlaIter(syn, sframes[syn.k + 1]) ELSE syn
    /\ syn2' = IF Looping(syn2) THEN OlaIter(syn2, sframes2[syn2.k + 1]) ELSE syn2
    /\ UNCHANGED <<pc, sig, wind, hop, synth, sr, itemsize, nf, centers, ana,
                   sframes, sframes2>>

OlaExit ==
    /\ pc = "ola"
    /\ ~Looping(syn) /\ ~Looping(syn2)
    /\ syn' = IF syn.status = "loop" THEN [syn EXCEPT !.status = "returned"] ELSE syn
    /\ syn2' = IF syn2.status = "loop" THEN [syn2 EXCEPT !.status = "returned"]
               ELSE syn2
    /\ pc' = "done"
    /\ UNCHANGED <<sig, wind, hop, synth, sr, itemsize, nf, centers, ana, sframes,
                   sframes2>>

\* Analysis followed by synthesis, on a signal of 8-byte elements.
Next ==
    \/ Stana(Float64Bytes)
    \/ OlaOfStana
    \/ OlaLoop
    \/ OlaExit

Spec == Init /\ [][Next]_vars

\* The three analysis functions, each called on the same arguments.
NextAna ==
    \/ Numframes
    \/ \E r \in 1..MaxRate : Stcenters(r)
    \/ \E isz \in ItemSizes : Stana(isz)

SpecAna == Init /\ [][NextAna]_vars

\* ola alone, on frames of any length.
OlaWindows == {Ones(n) : n \in 1..MaxOlaWin}

InitOla ==
    /\ InitArgs
    /\ wind \in OlaWindows
    /\ sig = <<>>
    /\ synth = FALSE
    /\ pc = "frames"
    /\ sframes \in FrameSeqs(Len(wind))
    /\ sframes2 \in Twins(sframes, Len(wind))

NextOla ==
    \/ OlaOfFrames
    \/ OlaLoop
    \/ OlaExit

SpecOla == InitOla /\ [][NextOla]_vars

(***************************************************************************)
(* Properties.                                                             *)
(***************************************************************************)
\* ceil(a / b) in exact integer arithmetic, b > 0.
ExactCeil(a, b) == -((-a) \div b)

RECURSIVE SumSeq(_)
SumSeq(x) == IF x = <<>> THEN 0 ELSE x[1] + SumSeq(Tail(x))

\* The signal extended by zeros on both sides, at 0-based index m.
SigAt(m) == IF 0 <= m /\ m < Len(sig) THEN sig[m + 1] ELSE 0

\* The window at 0-based index j, zero outside it.
WindAt(j) == IF 0 <= j /\ j < Len(wind) THEN wind[j + 1] ELSE 0

\* The sum of wind[m - k*hop] over the frames k in ks.
WindowSum(m, ks) ==
    LET kseq == [i \in 1..Cardinality(ks) |->
                   WindAt(m - (i - 1 + (CHOOSE k \in ks : \A l \in ks : k <= l)) * hop)]
    IN  IF ks = {} THEN 0 ELSE SumSeq(kseq)

\* Copies of the window shifted by multiples of hop sum to c everywhere.
ConstantOverlapAdd(c) ==
    /\ c > 0
    /\ \A j \in 0..(hop - 1) : WindowSum(j, (-Len(wind))..Len(wind)) = c

ColaSums == 1..(Len(wind) * 2)

Returned == pc = "done" /\ syn.status = "returned"

C2_FrameCount ==
    ana.called
        => /\ ~ana.raised
           /\ Len(ana.frames) = numframes(sig, sr, wind, hop, synth)
           /\ numframes(sig, sr, wind, hop, synth)
                = ExactCeil(Len(sig) - (IF synth THEN hop - Len(wind) ELSE 0), hop)

C3Args ==
    /\ sig = Ramp(5)
    /\ wind = Ones(4)
    /\ hop = 2
    /\ itemsize = Float64Bytes
    /\ ana.called

FramesCoverWindow(fr) == \A k \in 1..Len(fr) : Len(fr[k]) >= Len(wind)

\* C4: two frame sequences that agree on each frame's first F elements get the
\* same outcome and the same buffer from ola, at every step: elements past the
\* window never reach the buffer.
C4_Truncation ==
    (pc \in {"ola", "done"} /\ FramesCoverWindow(sframes) /\ FramesCoverWindow(sframes2))
        => /\ syn.status = syn2.status
           /\ syn.sout = syn2.sout
           /\ syn.k = syn2.k

\* C4's case: ola returned on frames longer than the window, in the left-edge and
\* the full branch, while the twin's frames differ past the window.
C4_Witness ==
    /\ Returned
    /\ syn.nframe >= 2
    /\ syn.sstart < 0
    /\ \A k \in 1..Len(sframes) :
           /\ Len(sframes[k]) > Len(wind)
           /\ sframes2[k] # sframes[k]

\* C5: stcenters returns numframes values, the i-th the float nearest to
\* (sstart + i*H + (F-1)/2)/sr, exactly that number when sr is 1 or 2; the first
\* center is 1.5 for F=4, H=2, sr=1, N=6, synth False.
C5_Centers ==
    pc = "centered"
        => LET F == Len(wind)
               sstart == IF synth THEN hop - F ELSE 0
               num(i) == 2 * (sstart + i * hop) + F - 1
           IN  /\ Len(centers) = numframes(sig, sr, wind, hop, synth)
               /\ \A i \in 0..(Len(centers) - 1) :
                      /\ centers[i + 1] = TrueDiv(num(i), 2 * sr)
                      /\ sr \in {1, 2}
                           => MulInt(2 * sr, centers[i + 1]) = TrueDiv(num(i), 1)
               /\ (F = 4 /\ hop = 2 /\ sr = 1 /\ Len(sig) = 6 /\ ~synth)
                      => centers[1] = [neg |-> FALSE, b |-> <<1, 1>>, f |-> 1]

\* C5's case: the example, with three centers 1.5, 3.5, 5.5.
C5_Witness ==
    /\ pc = "centered"
    /\ Len(wind) = 4 /\ hop = 2 /\ sr = 1 /\ Len(sig) = 6 /\ ~synth
    /\ Len(centers) = 3

HasShortFrame == \E k \in 1..Len(sframes) : Len(sframes[k]) < Len(wind)

\* C6, as stated: given a frame shorter than the window, at any place in the
\* sequence, the call of ola ends in an error and never returns a buffer (the
\* claim adds that nothing is added into the buffer before the error).
C6_ShortFrameFails ==
    (pc = "done" /\ HasShortFrame) => syn.status = "raised"

\* C7, as stated: the frames stana builds from the padded buffer equal, frame by
\* frame and element by element, those of the per-frame formulation, and neither
\* formulation fails, whatever the element width of the signal.
C7_Formulations ==
    ana.called
        => /\ ~ana.raised
           /\ ~stanaRef(sig, wind, hop, synth).raised
           /\ ana.frames = stanaRef(sig, wind, hop, synth).frames

\* C8, as stated: the pad counts stana builds its buffer with are never negative,
\* zpleft = max(0, -sstart) and zpright = max(0, (nframe-1)*H + F - zpleft - N);
\* the signal sits at zpleft..zpleft+N-1 of the buffer and every frame range
\* [i*H, i*H + F) lies within the buffer.
C8_PadGeometry ==
    ana.called
        => LET F == Len(wind)
               N == Len(sig)
               left == IF ana.padded THEN ana.zpleft ELSE 0
               right == IF ana.padded THEN ana.zpright ELSE 0
           IN  /\ ~ana.raised
               /\ left >= 0 /\ right >= 0
               /\ left = Max(0, -ana.sstart)
               /\ right = Max(0, (ana.nframe - 1) * hop + F - left - N)
               /\ Len(ana.sigpad) = N + left + right
               /\ \A n \in 1..Len(ana.sigpad) :
                      ana.sigpad[n] = IF left < n /\ n <= left + N
                                      THEN sig[n - left] ELSE 0
               /\ \A i \in 0..(ana.nframe - 1) : i * hop + F <= Len(ana.sigpad)

\* C9, as stated: for H <= F, ola(stana(sig, synth=True)) has length H*nframe >= N,
\* sample n < N equals sig[n] times the sum of wind[n - (H - F) - k*H] over all k,
\* the samples from N on are 0, and ola's start index equals stana's H - F.
C9_SynthesisAligned ==
    (pc = "done" /\ synth /\ hop <= Len(wind))
        => LET F == Len(wind)
               N == Len(sig)
           IN  /\ syn.status = "returned"
               /\ syn.sstart = hop - F
               /\ Len(syn.sout) = hop * syn.nframe
               /\ Len(syn.sout) >= N
               /\ \A n \in 0..(Len(syn.sout) - 1) :
                      syn.sout[n + 1]
                        = IF n < N
                          THEN sig[n + 1] * WindowSum(n - (hop - F), (-F)..(syn.nframe + F))
                          ELSE 0

\* C10, as stated: in every step of ola's loop, on frames at least as long as the
\* window, the pointer before frame k is sstart + k*H, the range written lies in
\* [0, send) and is as long as the part of the frame added, frame k ends at
\* (k+1)*H <= send = H*nframe, and the right-edge branch is never taken.
C10_IndexSafety ==
    (pc \in {"ola", "done"} /\ FramesCoverWindow(sframes))
        => /\ syn.status # "raised"
           /\ syn.send = hop * syn.nframe
           /\ syn.ii = syn.sstart + syn.k * hop
           /\ syn.branch # "right"
           /\ syn.k >= 1
                => /\ 0 <= syn.dlo /\ syn.dlo <= syn.dhi /\ syn.dhi <= syn.send
                   /\ syn.slen = syn.dhi - syn.dlo
                   /\ syn.dhi = syn.k * hop
                   /\ syn.ii - hop + Len(wind) = syn.k * hop

====
